---- MODULE Spec2Model ----
(***************************************************************************)
(* LoCalendar licensing: the client's license store (licenseStore.ts), its *)
(* start-up (useInitializeStore.ts), the print button (App.tsx), and the   *)
(* two parts of the licensing core whose code lives outside the client     *)
(* sources (the verify_license command and the purchase webhook), which    *)
(* are modelled from the specification.                                    *)
(*                                                                         *)
(* Time is counted in whole days: loadSavedLicense compares                *)
(* (now - verified_at) / 86400000 with 7, which on whole days is the       *)
(* comparison now - verified_at > 7.                                       *)
(*                                                                         *)
(* The record in localStorage is JSON of plain data (the token string, the *)
(* status the command answered, an ISO timestamp of millisecond            *)
(* precision), which JSON.parse and new Date read back unchanged; the      *)
(* model keeps the record as the value written.  Only the store writes it: *)
(* a record edited by hand, an unparseable record and a clock set back are *)
(* not among the behaviours of Spec.                                       *)
(*                                                                         *)
(* verifyLicense is called from two places: loadSavedLicense at start-up   *)
(* and the prompt's Activate button, which is disabled while isChecking.   *)
(*                                                                         *)
(* Further specifications over the same state: SpecStore drives the store  *)
(* directly, with overlapping calls; SpecClock adds a system clock that    *)
(* can be set back; SpecCalendar is the calendar store (calendarStore.ts)  *)
(* with the database (db.ts) and loadData step by step; SpecNavigation is  *)
(* month navigation; SpecLayout is one rendering of the page (layout.ts,   *)
(* CalendarPage.tsx), with lengths in 1/42 mm.                             *)
(***************************************************************************)
EXTENDS Integers, FiniteSets, Sequences, TLC

\* ------------------------------------------------------------------ bounds

\* Last day of the clock (days 0..MaxNow): long enough for a record to grow
\* older than the grace window.
MaxNow == 8

\* Number of purchase notifications the webhook model delivers.
MaxDeliveries == 3

\* Last tick of the issuer's clock.
MaxIssuerNow == 2

\* Longest token string handed to verify, in symbols.
MaxWireLen == 3

\* Most verifyLicense calls pending at once when the store is driven directly.
MaxInFlight == 2

\* Years after the year of the first start that month navigation may reach.
MaxYearsAhead == 1

\* Most database writes issued and not yet settled.
MaxPending == 2

\* ------------------------------------------------------- program constants

\* "Re-verify if more than 7 days old (grace period)".
GRACE_DAYS == 7

PRODUCT_ID == "localendar-mvp"

\* expires_at absent / null: the token never expires.
NoExpiry == 0 - 1

\* The month grid: 7 columns, 6 rows.
GridCols == 7
GridRows == 6

\* "Extra for month title" added to the header height, in mm.
HeaderExtraMm == 10

\* The offset of the weekday header text below the inner box's top, in mm.
WeekdayHeaderOffsetMm == 20

\* The schema's upper limits of marginMm, gutterMm and headerHeightMm.
MaxMarginMm == 50
MaxGutterMm == 10
MaxHeaderHeightMm == 50

\* ------------------------------------------------------------------ tokens

\* A token is described by what decoding and the signature check find in it:
\* its wire form, whether the signature verifies, and the payload's fields.
TokenForms == {"ok", "empty", "nodelimiter", "twodelimiters", "notbase64"}

Products == {PRODUCT_ID, "other-product"}

AllTokens ==
    [form : TokenForms, sigOk : BOOLEAN, productId : Products,
     expiresAt : {NoExpiry} \cup (0 .. MaxNow + 1)]

\* The tokens a user of this installation pastes into the prompt.
TokLong == [form |-> "ok", sigOk |-> TRUE, productId |-> PRODUCT_ID, expiresAt |-> MaxNow + 1]
TokShort == [form |-> "ok", sigOk |-> TRUE, productId |-> PRODUCT_ID, expiresAt |-> 2]
TokForged == [form |-> "ok", sigOk |-> FALSE, productId |-> PRODUCT_ID, expiresAt |-> MaxNow + 1]
TokOtherProduct == [form |-> "ok", sigOk |-> TRUE, productId |-> "other-product", expiresAt |-> MaxNow + 1]
TokGarbled == [form |-> "notbase64", sigOk |-> FALSE, productId |-> PRODUCT_ID, expiresAt |-> NoExpiry]

ClientTokens == {TokLong, TokShort, TokForged, TokOtherProduct, TokGarbled}

\* Stands where no token is (an absent record, no call yet).
NullToken == [form |-> "none", sigOk |-> FALSE, productId |-> "none", expiresAt |-> NoExpiry]

\* ------------------------------------------------------ the token string

\* A token string, symbol by symbol: "B" is a character of the base64url
\* alphabet, "." the delimiter, "!" a character outside the alphabet.
WireSymbols == {"B", ".", "!"}

Wires == UNION {[1 .. n -> WireSymbols] : n \in 0 .. MaxWireLen}

\* A half decodes when it is not empty (an empty half holds no payload and
\* no signature) and every character is of the alphabet.
isBase64(seg) == Len(seg) > 0 /\ \A i \in 1 .. Len(seg) : seg[i] = "B"

hasDelimiter(w) == \E i \in 1 .. Len(w) : w[i] = "."

firstDelimiter(w) ==
    CHOOSE i \in 1 .. Len(w) : w[i] = "." /\ \A j \in 1 .. i - 1 : w[j] # "."

\* TokenCodec.decode on the string: split on the delimiter exactly once, then
\* base-decode both halves. What it finds is the token's form.
wireForm(w) ==
    IF Len(w) = 0 THEN "empty"
    ELSE IF ~hasDelimiter(w) THEN "nodelimiter"
    ELSE LET i == firstDelimiter(w)
             left == SubSeq(w, 1, i - 1)
             right == SubSeq(w, i + 1, Len(w))
         IN IF hasDelimiter(right) THEN "twodelimiters"
            ELSE IF ~isBase64(left) \/ ~isBase64(right) THEN "notbase64"
            ELSE "ok"

\* ------------------------------------------------- VerificationEngine.verify

decodeOk_lenient(token) == token.form \in {"ok", "twodelimiters"}

\* TokenCodec.decode: succeeds only on <base64>.<base64>.
decodeOk(token) == token.form = "ok"

isExpiredAt_noNullCheck(token, at) == token.expiresAt <= at

isExpiredAt_strict(token, at) == token.expiresAt # NoExpiry /\ token.expiresAt < at

\* The expiry test. The boundary is the one the specification fixes for the
\* engine: a token checked exactly at its expiresAt is expired.
isExpiredAt(token, at) == token.expiresAt # NoExpiry /\ token.expiresAt <= at

verify_productFirst(token, expectedProductId, at) ==
    IF ~decodeOk(token) THEN "Malformed"
    ELSE IF token.productId # expectedProductId THEN "WrongProduct"
    ELSE IF ~token.sigOk THEN "InvalidSignature"
    ELSE IF isExpiredAt(token, at) THEN "Expired"
    ELSE "Valid"

verify(token, expectedProductId, at) ==
    IF ~decodeOk(token) THEN "Malformed"
    ELSE IF ~token.sigOk THEN "InvalidSignature"
    ELSE IF token.productId # expectedProductId THEN "WrongProduct"
    ELSE IF isExpiredAt(token, at) THEN "Expired"
    ELSE "Valid"

\* ------------------------------------------------------------ LicenseStatus

\* What the verify_license command answers for a token checked at time `at`.
verify_license(token, at) ==
    LET outcome == verify(token, PRODUCT_ID, at)
        signed == outcome \in {"Valid", "Expired"}
    IN [valid |-> outcome = "Valid",
        payload |-> signed,
        expires_at |-> IF signed THEN token.expiresAt ELSE NoExpiry,
        grace_period |-> FALSE,
        error |-> IF outcome = "Valid" THEN "none" ELSE outcome]

errorStatus_withPayload ==
    [valid |-> FALSE, payload |-> TRUE, expires_at |-> NoExpiry,
     grace_period |-> FALSE, error |-> "Failed to verify license"]

\* The status verifyLicense builds in its catch block.
errorStatus ==
    [valid |-> FALSE, payload |-> FALSE, expires_at |-> NoExpiry,
     grace_period |-> FALSE, error |-> "Failed to verify license"]

NoLicense == [valid |-> FALSE, payload |-> FALSE, expires_at |-> NoExpiry,
              grace_period |-> FALSE, error |-> "null"]

NoRecord == [token |-> NullToken, status |-> NoLicense, verified_at |-> NoExpiry]

IsValid(l) == l # NoLicense /\ l.valid

canUsePrintExport(l) == TRUE

canUseAllFeatures(l) == IF l = NoLicense THEN FALSE ELSE l.valid

\* ------------------------------------------------------------------- state

VARIABLES
    now,                \* the wall clock, in days
    storage,            \* localStorage[LICENSE_STORAGE_KEY], or NoRecord
    license,            \* the store's license, or NoLicense (null)
    isChecking,         \* the store's isChecking
    showLicensePrompt,  \* the store's showLicensePrompt
    isLoading,          \* useInitializeStore's isLoading
    inflight,           \* the verify_license invocations not yet settled
    lastCall,           \* the verifyLicense call that settled last (history)
    lastOp,             \* the operation that ran last (history)
    initLoads,          \* loadSavedLicense executions by loadData in this run (history)
    deactivated,        \* clearLicense ran and no verifyLicense was requested since (history)
    vWire, vTok, vExpected, vAt, vOut,   \* one evaluation of verify
    processed, minted, delivery, issuerNow,  \* the purchase webhook
    currentYear, currentMonth,  \* the calendar store's current view
    prefs,              \* the calendar store's prefs
    events,             \* the calendar store's events list
    selectedDate,       \* the calendar store's selectedDate
    dbPrefs,            \* the database's prefs table
    dbEvents,           \* the database's events table, by id
    dbQueue,            \* database writes issued and not yet settled, oldest first
    loadPc,             \* loadData's position
    lPrefs, lFirstDay, lDaysInMonth,   \* the inputs of one rendering of the page
    lGrid, lHeaders     \* what computeGrid returned and where the weekday headers are drawn

clientVars == <<now, storage, license, isChecking, showLicensePrompt, isLoading,
                inflight, lastCall, lastOp, initLoads, deactivated>>
verifyVars == <<vWire, vTok, vExpected, vAt, vOut>>
issuerVars == <<processed, minted, delivery, issuerNow>>
calVars == <<currentYear, currentMonth, prefs, events, selectedDate,
             dbPrefs, dbEvents, dbQueue, loadPc>>
layoutVars == <<lPrefs, lFirstDay, lDaysInMonth, lGrid, lHeaders>>
vars == <<clientVars, verifyVars, issuerVars, calVars, layoutVars>>

\* How an invocation of the command ends: the issuer was reached, or it was
\* not and the token was checked offline (the store cannot tell the two
\* apart), or the invocation rejects, or it never settles.
Backends == {"online", "offline", "rejects", "hangs"}

NoCall == [token |-> NullToken, src |-> "none", backend |-> "none",
           at |-> NoExpiry, status |-> NoLicense]

\* ------------------------------------------------------------ licenseStore

\* verifyLicense up to its await: set({ isChecking: true }) and the invoke.
verifyLicenseStart(token, src, backend) ==
    /\ isChecking' = TRUE
    /\ inflight' = inflight \cup {[token |-> token, src |-> src, backend |-> backend]}
    /\ deactivated' = FALSE

StorageAfterVerify_partial(old, token, status, at) ==
    IF ~status.valid THEN old
    ELSE IF old.verified_at = NoExpiry
        THEN [token |-> token, status |-> status, verified_at |-> at]
        ELSE [old EXCEPT !.status = status, !.verified_at = at]

StorageAfterVerify_saveAlways(old, token, status, at) ==
    [token |-> token, status |-> status, verified_at |-> at]

StorageAfterVerify_dropInvalid(old, token, status, at) ==
    IF status.valid
        THEN [token |-> token, status |-> status, verified_at |-> at]
        ELSE NoRecord

\* "Save valid license to localStorage": the setItem under if (status.valid).
StorageAfterVerify(old, token, status, at) ==
    IF status.valid
        THEN [token |-> token, status |-> status, verified_at |-> at]
        ELSE old

\* verifyLicense after the invoke resolved with a status.
VerifyResolve(c) ==
    /\ c \in inflight
    /\ c.backend \in {"online", "offline"}
    /\ LET status == verify_license(c.token, now)
       IN /\ storage' = StorageAfterVerify(storage, c.token, status, now)
          /\ license' = status
          /\ lastCall' = [token |-> c.token, src |-> c.src, backend |-> c.backend,
                          at |-> now, status |-> status]
    /\ isChecking' = FALSE
    /\ showLicensePrompt' = FALSE
    /\ inflight' = inflight \ {c}
    /\ lastOp' = "verifyResolved"
    /\ UNCHANGED <<now, isLoading, initLoads, deactivated>>

\* verifyLicense's catch block: the invoke rejected.
VerifyReject(c) ==
    /\ c \in inflight
    /\ c.backend = "rejects"
    /\ license' = errorStatus
    /\ isChecking' = FALSE
    /\ lastCall' = [token |-> c.token, src |-> c.src, backend |-> c.backend,
                    at |-> now, status |-> errorStatus]
    /\ inflight' = inflight \ {c}
    /\ lastOp' = "verifyRejected"
    /\ UNCHANGED <<now, storage, showLicensePrompt, isLoading, initLoads, deactivated>>

setShowLicensePrompt(show) ==
    /\ showLicensePrompt' = show
    /\ lastOp' = "setShowLicensePrompt"
    /\ UNCHANGED <<now, storage, license, isChecking, isLoading, inflight, lastCall,
                   initLoads, deactivated>>

clearLicense_keepsLicense ==
    /\ ~isLoading
    /\ storage' = NoRecord
    /\ showLicensePrompt' = TRUE
    /\ lastOp' = "clearLicense"
    /\ deactivated' = TRUE
    /\ UNCHANGED <<now, license, isChecking, isLoading, inflight, lastCall, initLoads>>

\* No component calls clearLicense; it is the store's "deactivate", open to
\* the running application.
clearLicense ==
    /\ ~isLoading
    /\ storage' = NoRecord
    /\ license' = NoLicense
    /\ showLicensePrompt' = TRUE
    /\ lastOp' = "clearLicense"
    /\ deactivated' = TRUE
    /\ UNCHANGED <<now, isChecking, isLoading, inflight, lastCall, initLoads>>

\* daysSinceVerification > 7
isStale_inclusive(record, at) == at - record.verified_at >= GRACE_DAYS

isStale(record, at) == at - record.verified_at > GRACE_DAYS

loadSavedLicense ==
    IF storage = NoRecord
        THEN /\ showLicensePrompt' = TRUE
             /\ UNCHANGED <<license, isChecking, inflight, deactivated>>
        ELSE IF isStale(storage, now)
            THEN /\ \E b \in Backends : verifyLicenseStart(storage.token, "startup", b)
                 /\ UNCHANGED <<license, showLicensePrompt>>
            ELSE /\ license' = storage.status
                 /\ UNCHANGED <<isChecking, showLicensePrompt, inflight, deactivated>>

\* ------------------------------------------------------- useInitializeStore

\* loadData with every database call fulfilled: loadSavedLicense runs, then
\* the finally block clears isLoading.
LoadDataOk ==
    /\ isLoading
    /\ loadSavedLicense
    /\ isLoading' = FALSE
    /\ lastOp' = "loadSavedLicense"
    /\ initLoads' = initLoads + 1
    /\ UNCHANGED <<now, storage, lastCall>>

\* loadData with a database call rejected: the catch skips loadSavedLicense.
LoadDataFail ==
    /\ isLoading
    /\ isLoading' = FALSE
    /\ lastOp' = "loadDataFailed"
    /\ UNCHANGED <<now, storage, license, isChecking, showLicensePrompt, inflight, lastCall,
                   initLoads, deactivated>>

\* ------------------------------------------------------ App, LicensePrompt

\* The Activate button of the prompt: shown with the prompt, disabled while
\* isChecking; handleVerify calls verifyLicense with the pasted key.
handleVerify(token) ==
    /\ ~isLoading
    /\ showLicensePrompt
    /\ ~isChecking
    /\ \E b \in Backends : verifyLicenseStart(token, "user", b)
    /\ lastOp' = "handleVerify"
    /\ UNCHANGED <<now, storage, license, showLicensePrompt, isLoading, lastCall, initLoads>>

\* The "Activate" button of the control bar, rendered when license?.valid is
\* falsy: setShowLicensePrompt(true).
OpenPrompt ==
    /\ ~isLoading
    /\ ~IsValid(license)
    /\ ~showLicensePrompt
    /\ setShowLicensePrompt(TRUE)

\* The Print button: window.print(), whatever the license.
handlePrint ==
    /\ ~isLoading
    /\ lastOp' = "handlePrint"
    /\ UNCHANGED <<now, storage, license, isChecking, showLicensePrompt, isLoading,
                   inflight, lastCall, initLoads, deactivated>>

\* ------------------------------------------------------------- environment

Tick ==
    /\ now < MaxNow
    /\ now' = now + 1
    /\ lastOp' = "tick"
    /\ UNCHANGED <<storage, license, isChecking, showLicensePrompt, isLoading,
                   inflight, lastCall, initLoads, deactivated>>

\* The user sets the system clock to an earlier day; new Date() follows it.
ClockSetBack ==
    /\ \E t \in 0 .. now - 1 : now' = t
    /\ lastOp' = "clockSetBack"
    /\ UNCHANGED <<storage, license, isChecking, showLicensePrompt, isLoading,
                   inflight, lastCall, initLoads, deactivated>>

\* The application is closed and started again: the stores are constructed
\* anew, pending invocations are gone, localStorage stays.
Restart ==
    /\ ~isLoading
    /\ license' = NoLicense
    /\ isChecking' = FALSE
    /\ showLicensePrompt' = FALSE
    /\ isLoading' = TRUE
    /\ inflight' = {}
    /\ lastCall' = NoCall
    /\ lastOp' = "start"
    /\ initLoads' = 0
    /\ deactivated' = FALSE
    /\ UNCHANGED <<now, storage>>

ClientInit ==
    /\ now = 0
    /\ storage = NoRecord
    /\ license = NoLicense
    /\ isChecking = FALSE
    /\ showLicensePrompt = FALSE
    /\ isLoading = TRUE
    /\ inflight = {}
    /\ lastCall = NoCall
    /\ lastOp = "start"
    /\ initLoads = 0
    /\ deactivated = FALSE

\* ------------------------------------------- the store, driven directly
\* The store's actions called in any order by any caller, a new call also
\* while earlier ones are pending.

\* Two keys that verify, one of them only until its expiry.
StoreTokens == {TokLong, TokShort}

\* An invocation answers or rejects; one that has done neither is pending.
StoreBackends == {"online", "rejects"}

\* verifyLicense(token), up to its await.
StoreVerifyLicense(token) ==
    /\ \E b \in StoreBackends : verifyLicenseStart(token, "user", b)
    /\ inflight' # inflight
    /\ Cardinality(inflight') <= MaxInFlight
    /\ lastOp' = "verifyLicense"
    /\ UNCHANGED <<now, storage, license, showLicensePrompt, isLoading, lastCall, initLoads>>

\* loadSavedLicense(), called on the store.
StoreLoadSavedLicense ==
    /\ loadSavedLicense
    /\ (storage # NoRecord /\ isStale(storage, now)) => inflight' # inflight
    /\ \A c \in inflight' : c.backend \in StoreBackends
    /\ Cardinality(inflight') <= MaxInFlight
    /\ lastOp' = "loadSavedLicense"
    /\ UNCHANGED <<now, storage, isLoading, lastCall, initLoads>>

\* The store as created, in an application that has finished loading.
StoreInit ==
    /\ now = 0
    /\ storage = NoRecord
    /\ license = NoLicense
    /\ isChecking = FALSE
    /\ showLicensePrompt = FALSE
    /\ isLoading = FALSE
    /\ inflight = {}
    /\ lastCall = NoCall
    /\ lastOp = "start"
    /\ initLoads = 0
    /\ deactivated = FALSE

\* ------------------------------------------------- calendarStore and db

\* The year new Date() gives at the first start.
BaseYear == 2025

Years == BaseYear .. BaseYear + MaxYearsAhead

\* Event ids in primary-key order; crypto.randomUUID() picks one not in use.
EventIdOrder == <<"e1", "e2">>

EventIds == {EventIdOrder[i] : i \in 1 .. Len(EventIdOrder)}

Titles == {"t1", "t2"}

\* No row under this key.
Absent == "absent"

\* What a prefs record holds: the defaults, or a holidays country chosen.
PrefsValues == {"default", "holidays"}

Dates == {"null", "day"}

EventItems == [id : EventIds, title : Titles]

EventSet(evs) == {evs[i] : i \in 1 .. Len(evs)}

\* The rows of the events table.
Persisted(table) ==
    {[id |-> i, title |-> table[i]] : i \in {j \in EventIds : table[j] # Absent}}

RECURSIVE toArrayFrom(_, _)
toArrayFrom(table, k) ==
    IF k > Len(EventIdOrder) THEN <<>>
    ELSE LET id == EventIdOrder[k]
         IN (IF table[id] # Absent THEN <<[id |-> id, title |-> table[id]]>> ELSE <<>>)
                \o toArrayFrom(table, k + 1)

\* db.events.toArray(): the rows in primary-key order.
toArray(table) == toArrayFrom(table, 1)

\* db.events.put / update / delete and db.prefs.put, applied to the tables.
EventsAfterWrite(table, w) ==
    IF w.op = "saveEvent" THEN [table EXCEPT ![w.id] = w.value]
    ELSE IF w.op = "updateEvent"
        THEN (IF table[w.id] # Absent THEN [table EXCEPT ![w.id] = w.value] ELSE table)
    ELSE IF w.op = "deleteEvent" THEN [table EXCEPT ![w.id] = Absent]
    ELSE table

PrefsAfterWrite(row, w) == IF w.op = "savePrefs" THEN w.value ELSE row

\* A dbOperations call: the write is issued, its promise not awaited.
Issue(w) ==
    /\ Len(dbQueue) < MaxPending
    /\ dbQueue' = Append(dbQueue, w)

\* The license store's part of the state, left alone by the calendar store
\* and the database.
CalUnchangedLicense ==
    UNCHANGED <<now, storage, license, isChecking, showLicensePrompt, isLoading,
                inflight, lastCall, lastOp, initLoads, deactivated>>

\* The same for an operation of the calendar view, which is recorded.
CalKeepsLicense(op) ==
    /\ lastOp' = op
    /\ UNCHANGED <<now, storage, license, isChecking, showLicensePrompt, isLoading,
                   inflight, lastCall, initLoads, deactivated>>

nextMonth_noWrap ==
    /\ ~isLoading
    /\ currentYear * 12 + currentMonth + 1 <= (BaseYear + MaxYearsAhead) * 12 + 11
    /\ LET newMonth == currentMonth + 1
       IN IF newMonth > 12
              THEN currentYear' = currentYear + 1 /\ currentMonth' = 0
              ELSE currentMonth' = newMonth /\ UNCHANGED currentYear
    /\ CalKeepsLicense("nextMonth")
    /\ UNCHANGED <<prefs, events, selectedDate, dbPrefs, dbEvents, dbQueue, loadPc>>

nextMonth ==
    /\ ~isLoading
    /\ currentYear * 12 + currentMonth + 1 <= (BaseYear + MaxYearsAhead) * 12 + 11
    /\ LET newMonth == currentMonth + 1
       IN IF newMonth > 11
              THEN currentYear' = currentYear + 1 /\ currentMonth' = 0
              ELSE currentMonth' = newMonth /\ UNCHANGED currentYear
    /\ CalKeepsLicense("nextMonth")
    /\ UNCHANGED <<prefs, events, selectedDate, dbPrefs, dbEvents, dbQueue, loadPc>>

previousMonth ==
    /\ ~isLoading
    /\ currentYear * 12 + currentMonth - 1 >= BaseYear * 12
    /\ LET newMonth == currentMonth - 1
       IN IF newMonth < 0
              THEN currentYear' = currentYear - 1 /\ currentMonth' = 11
              ELSE currentMonth' = newMonth /\ UNCHANGED currentYear
    /\ CalKeepsLicense("previousMonth")
    /\ UNCHANGED <<prefs, events, selectedDate, dbPrefs, dbEvents, dbQueue, loadPc>>

setSelectedDate(date) ==
    /\ ~isLoading
    /\ selectedDate' = date
    /\ CalKeepsLicense("setSelectedDate")
    /\ UNCHANGED <<currentYear, currentMonth, prefs, events, dbPrefs, dbEvents, dbQueue, loadPc>>

\* setPrefs from the settings panel: the holidays country is chosen.
setPrefs(newPrefs) ==
    /\ ~isLoading
    /\ Issue([op |-> "savePrefs", id |-> "prefs", value |-> newPrefs])
    /\ prefs' = newPrefs
    /\ CalUnchangedLicense
    /\ UNCHANGED <<currentYear, currentMonth, events, selectedDate, dbPrefs, dbEvents, loadPc>>

addEvent(event) ==
    /\ Issue([op |-> "saveEvent", id |-> event.id, value |-> event.title])
    /\ events' = Append(events, event)

\* An id crypto.randomUUID() can return: no event, row or pending write has it.
IsFreshId(id) ==
    /\ \A i \in 1 .. Len(events) : events[i].id # id
    /\ dbEvents[id] = Absent
    /\ \A i \in 1 .. Len(dbQueue) : dbQueue[i].id # id

\* App.handleAddEvent: with a date selected, add the event and clear the date.
handleAddEvent(id, title) ==
    /\ ~isLoading
    /\ selectedDate # "null"
    /\ IsFreshId(id)
    /\ addEvent([id |-> id, title |-> title])
    /\ selectedDate' = "null"
    /\ CalUnchangedLicense
    /\ UNCHANGED <<currentYear, currentMonth, prefs, dbPrefs, dbEvents, loadPc>>

updateEvent(id, title) ==
    /\ ~isLoading
    /\ Issue([op |-> "updateEvent", id |-> id, value |-> title])
    /\ events' = [i \in 1 .. Len(events) |->
                     IF events[i].id = id THEN [id |-> id, title |-> title] ELSE events[i]]
    /\ CalUnchangedLicense
    /\ UNCHANGED <<currentYear, currentMonth, prefs, selectedDate, dbPrefs, dbEvents, loadPc>>

deleteEvent(id) ==
    /\ ~isLoading
    /\ Issue([op |-> "deleteEvent", id |-> id, value |-> Absent])
    /\ events' = SelectSeq(events, LAMBDA e : e.id # id)
    /\ CalUnchangedLicense
    /\ UNCHANGED <<currentYear, currentMonth, prefs, selectedDate, dbPrefs, dbEvents, loadPc>>

\* The oldest pending write is carried out and its promise fulfils.
DbWriteOk ==
    /\ dbQueue # <<>>
    /\ dbEvents' = EventsAfterWrite(dbEvents, Head(dbQueue))
    /\ dbPrefs' = PrefsAfterWrite(dbPrefs, Head(dbQueue))
    /\ dbQueue' = Tail(dbQueue)
    /\ UNCHANGED <<currentYear, currentMonth, prefs, events, selectedDate, loadPc>>
    /\ CalUnchangedLicense

\* The oldest pending write fails; its promise rejects into .catch(console.error).
DbWriteFail ==
    /\ dbQueue # <<>>
    /\ dbQueue' = Tail(dbQueue)
    /\ UNCHANGED <<currentYear, currentMonth, prefs, events, selectedDate,
                   dbPrefs, dbEvents, loadPc>>
    /\ CalUnchangedLicense

\* ---------------------------------------------- loadData, step by step

NoPrefs == "none"

\* getAllPrefs fulfils: the first record found becomes the prefs (setPrefs
\* writes it back without awaiting), or the defaults are to be saved.
LoadPrefs ==
    /\ isLoading
    /\ loadPc = "getAllPrefs"
    /\ IF dbPrefs # NoPrefs
           THEN /\ prefs' = dbPrefs
                /\ Issue([op |-> "savePrefs", id |-> "prefs", value |-> dbPrefs])
                /\ loadPc' = "getAllEvents"
           ELSE /\ loadPc' = "savePrefs"
                /\ UNCHANGED <<prefs, dbQueue>>
    /\ UNCHANGED <<currentYear, currentMonth, events, selectedDate, dbPrefs, dbEvents>>
    /\ CalUnchangedLicense

\* await dbOperations.savePrefs(defaultPrefs) fulfils.
SavePrefsOk ==
    /\ isLoading
    /\ loadPc = "savePrefs"
    /\ dbPrefs' = prefs
    /\ loadPc' = "getAllEvents"
    /\ UNCHANGED <<currentYear, currentMonth, prefs, events, selectedDate, dbEvents, dbQueue>>
    /\ CalUnchangedLicense

\* getAllEvents fulfils: the events are set, loadSavedLicense runs, and the
\* finally block clears isLoading.
LoadEventsOk ==
    /\ loadPc = "getAllEvents"
    /\ events' = toArray(dbEvents)
    /\ LoadDataOk
    /\ loadPc' = "loaded"
    /\ UNCHANGED <<currentYear, currentMonth, prefs, selectedDate, dbPrefs, dbEvents, dbQueue>>

loadDataCatch_noFinally ==
    /\ isLoading
    /\ loadPc \in {"getAllPrefs", "savePrefs", "getAllEvents"}
    /\ loadPc' = "failed"
    /\ UNCHANGED <<currentYear, currentMonth, prefs, events, selectedDate,
                   dbPrefs, dbEvents, dbQueue>>
    /\ CalUnchangedLicense

\* The awaited database call rejects: catch, then the finally block.
loadDataCatch ==
    /\ loadPc \in {"getAllPrefs", "savePrefs", "getAllEvents"}
    /\ LoadDataFail
    /\ loadPc' = "failed"
    /\ UNCHANGED <<currentYear, currentMonth, prefs, events, selectedDate,
                   dbPrefs, dbEvents, dbQueue>>

\* The application is closed with no write pending and started again: the
\* stores are constructed anew, the database stays.
CalRestart ==
    /\ Restart
    /\ dbQueue = <<>>
    /\ prefs' = "default"
    /\ events' = <<>>
    /\ selectedDate' = "null"
    /\ loadPc' = "getAllPrefs"
    /\ UNCHANGED <<currentYear, currentMonth, dbPrefs, dbEvents, dbQueue>>

\* The calendar store as constructed, the database empty.
CalIdle ==
    /\ currentYear = BaseYear
    /\ currentMonth = 0
    /\ prefs = "default"
    /\ events = <<>>
    /\ selectedDate = "null"
    /\ dbPrefs = NoPrefs
    /\ dbEvents = [i \in EventIds |-> Absent]
    /\ dbQueue = <<>>
    /\ loadPc = "getAllPrefs"

\* The loaded application in any month of the year, with whatever events,
\* prefs and selected date the user has.
NavInit ==
    /\ currentYear = BaseYear
    /\ currentMonth \in 0 .. 11
    /\ prefs \in PrefsValues
    /\ events \in {<<>>} \cup {<<e>> : e \in EventItems}
    /\ selectedDate \in Dates
    /\ dbPrefs = prefs
    /\ dbEvents = [i \in EventIds |->
                       IF \E e \in EventSet(events) : e.id = i
                           THEN (CHOOSE e \in EventSet(events) : e.id = i).title
                           ELSE Absent]
    /\ dbQueue = <<>>
    /\ loadPc = "loaded"

\* ------------------------------------------------- layout, CalendarPage

\* Lengths are held in 1/42 mm, so that the divisions by 7 columns, by 6
\* rows and by 2 are exact.
Scale == GridCols * GridRows

Units(mm) == Scale * mm

PaperSizes == {"A5", "A4", "A3"}

Orientations == {"portrait", "landscape"}

\* Paper dimensions in mm.
PAPER_DIMENSIONS ==
    [A5 |-> [w |-> 148, h |-> 210],
     A4 |-> [w |-> 210, h |-> 297],
     A3 |-> [w |-> 297, h |-> 420]]

\* The preferences tried: the schema's limits and the defaults.
MarginValues == {0, 10, MaxMarginMm}
GutterValues == {0, 2, MaxGutterMm}
HeaderHeightValues == {0, 8, MaxHeaderHeightMm}

LayoutPrefs ==
    [size : PaperSizes, orientation : Orientations, marginMm : MarginValues,
     gutterMm : GutterValues, headerHeightMm : HeaderHeightValues]

createDefaultPrefs ==
    [size |-> "A4", orientation |-> "portrait", marginMm |-> 10,
     gutterMm |-> 2, headerHeightMm |-> 8]

getPageDims(paper) ==
    LET base == PAPER_DIMENSIONS[paper.size]
    IN IF paper.orientation = "landscape"
           THEN [w |-> Units(base.h), h |-> Units(base.w)]
           ELSE [w |-> Units(base.w), h |-> Units(base.h)]

getInnerBox(pageDims, marginMm) ==
    [x |-> Units(marginMm),
     y |-> Units(marginMm),
     w |-> pageDims.w - 2 * Units(marginMm),
     h |-> pageDims.h - 2 * Units(marginMm),
     cx |-> pageDims.w \div 2,
     cy |-> pageDims.h \div 2]

\* The measures computeGrid derives before its loop.
gridGeometry(p) ==
    LET inner == getInnerBox(getPageDims(p), p.marginMm)
        headerHeight == Units(p.headerHeightMm) + Units(HeaderExtraMm)
        availableHeight == inner.h - headerHeight
        gutter == Units(p.gutterMm)
    IN [inner |-> inner,
        gridStartY |-> inner.y + headerHeight,
        availableHeight |-> availableHeight,
        gutter |-> gutter,
        cellW |-> (inner.w - gutter * (GridCols - 1)) \div GridCols,
        cellH |-> (availableHeight - gutter * (GridRows - 1)) \div GridRows]

RECURSIVE gridCellsFrom_offByOne(_, _, _, _, _)
gridCellsFrom_offByOne(cellIndex, dayNum, firstDay, daysInMonth, G) ==
    IF cellIndex >= GridRows * GridCols THEN <<>>
    ELSE IF cellIndex <= firstDay \/ dayNum > daysInMonth
        THEN gridCellsFrom_offByOne(cellIndex + 1, dayNum, firstDay, daysInMonth, G)
    ELSE <<[x |-> G.inner.x + (cellIndex % GridCols) * (G.cellW + G.gutter),
            y |-> G.gridStartY + (cellIndex \div GridCols) * (G.cellH + G.gutter),
            w |-> G.cellW, h |-> G.cellH, day |-> dayNum]>>
         \o gridCellsFrom_offByOne(cellIndex + 1, dayNum + 1, firstDay, daysInMonth, G)

\* computeGrid's loop over rows and columns, from cell cellIndex on.
RECURSIVE gridCellsFrom(_, _, _, _, _)
gridCellsFrom(cellIndex, dayNum, firstDay, daysInMonth, G) ==
    IF cellIndex >= GridRows * GridCols THEN <<>>
    ELSE IF cellIndex < firstDay \/ dayNum > daysInMonth
        THEN gridCellsFrom(cellIndex + 1, dayNum, firstDay, daysInMonth, G)
    ELSE <<[x |-> G.inner.x + (cellIndex % GridCols) * (G.cellW + G.gutter),
            y |-> G.gridStartY + (cellIndex \div GridCols) * (G.cellH + G.gutter),
            w |-> G.cellW, h |-> G.cellH, day |-> dayNum]>>
         \o gridCellsFrom(cellIndex + 1, dayNum + 1, firstDay, daysInMonth, G)

\* computeGrid, for a month that starts on weekday firstDay and has
\* daysInMonth days.
computeGrid(firstDay, daysInMonth, p) ==
    LET G == gridGeometry(p)
    IN [cells |-> gridCellsFrom(0, 1, firstDay, daysInMonth, G),
        innerBox |-> [x |-> G.inner.x, y |-> G.gridStartY,
                      w |-> G.inner.w, h |-> G.availableHeight]]

\* CalendarPage's weekday headers: the text position of each column's label.
weekdayHeaders(p) ==
    LET inner == getInnerBox(getPageDims(p), p.marginMm)
        cellW == (inner.w - Units(p.gutterMm) * 6) \div 7
    IN [idx \in 0 .. 6 |->
           [x |-> inner.x + idx * (cellW + Units(p.gutterMm)) + cellW \div 2,
            y |-> inner.y + Units(WeekdayHeaderOffsetMm) + Units(p.headerHeightMm)]]

NoGrid == [cells |-> <<>>, innerBox |-> [x |-> 0, y |-> 0, w |-> 0, h |-> 0]]

NoHeaders == [idx \in 0 .. 6 |-> [x |-> 0, y |-> 0]]

\* Nothing is rendered; the preferences are the defaults.
LayoutIdle ==
    /\ lPrefs = createDefaultPrefs
    /\ lFirstDay = 0
    /\ lDaysInMonth = 31
    /\ lGrid = NoGrid
    /\ lHeaders = NoHeaders

\* Any preferences within the schema, any month.
LayoutInit ==
    /\ lPrefs \in LayoutPrefs
    /\ lFirstDay \in 0 .. 6
    /\ lDaysInMonth \in 28 .. 31
    /\ lGrid = NoGrid
    /\ lHeaders = NoHeaders

\* CalendarPage renders: computeGrid and the weekday header positions.
CalendarPage ==
    /\ lGrid = NoGrid
    /\ lGrid' = computeGrid(lFirstDay, lDaysInMonth, lPrefs)
    /\ lHeaders' = weekdayHeaders(lPrefs)
    /\ UNCHANGED <<lPrefs, lFirstDay, lDaysInMonth>>

\* --------------------------------------------------- one evaluation of verify

Outcomes == {"Valid", "Expired", "InvalidSignature", "Malformed", "WrongProduct"}

VerifyIdle ==
    /\ vWire = <<>>
    /\ vTok = NullToken
    /\ vExpected = PRODUCT_ID
    /\ vAt = 0
    /\ vOut = "none"

\* The string, and a token of the form decoding finds in that string.
VerifyInit ==
    /\ vWire \in Wires
    /\ vTok \in {t \in AllTokens : t.form = wireForm(vWire)}
    /\ vExpected \in Products
    /\ vAt \in 0 .. MaxNow
    /\ vOut = "none"

VerifyApply ==
    /\ vOut = "none"
    /\ vOut' = verify(vTok, vExpected, vAt)
    /\ UNCHANGED <<vWire, vTok, vExpected, vAt>>

\* ------------------------------------------------------------ WebhookIngestor

SaleIds == {"sale-a", "sale-b"}

Deliveries == 1 .. MaxDeliveries

NoToken == [saleId |-> "none", identity |-> "none", issuedAt |-> NoExpiry]

\* The buyer of a sale: every notification of a sale names the same buyer.
identityOf(saleId) == IF saleId = "sale-a" THEN "buyer-a" ELSE "buyer-b"

\* IssuanceService.issue: the payload carries issuedAt = now.
issue(saleId, identity, at) == [saleId |-> saleId, identity |-> identity, issuedAt |-> at]

Lookup_forgetful(map, saleId) == NoToken

\* The deduplication set, read by sale id.
Lookup(map, saleId) == map[saleId]

NoDelivery == [state |-> "idle", saleId |-> "none", result |-> NoToken]

\* A purchase notification arrives (deliveries are at-least-once: the same
\* sale may be notified again while an earlier notification is in progress).
Deliver(d, saleId) ==
    /\ delivery[d].state = "idle"
    /\ delivery' = [delivery EXCEPT ![d] = [state |-> "received", saleId |-> saleId,
                                            result |-> NoToken]]
    /\ UNCHANGED <<processed, minted, issuerNow>>

\* handlePurchaseEvent(saleId, identity): one atomic check-and-insert on the
\* deduplication set; the earlier token is returned when the sale is known.
handlePurchaseEvent(d) ==
    /\ delivery[d].state = "received"
    /\ LET saleId == delivery[d].saleId
           known == Lookup(processed, saleId)
           token == IF known # NoToken THEN known
                    ELSE issue(saleId, identityOf(saleId), issuerNow)
       IN /\ processed' = [processed EXCEPT ![saleId] = token]
          /\ minted' = IF known # NoToken THEN minted
                       ELSE [minted EXCEPT ![saleId] = @ + 1]
          /\ delivery' = [delivery EXCEPT ![d] = [state |-> "done", saleId |-> saleId,
                                                  result |-> token]]
    /\ UNCHANGED issuerNow

IssuerTick ==
    /\ issuerNow < MaxIssuerNow
    /\ issuerNow' = issuerNow + 1
    /\ UNCHANGED <<processed, minted, delivery>>

IssuerInit ==
    /\ processed = [s \in SaleIds |-> NoToken]
    /\ minted = [s \in SaleIds |-> 0]
    /\ delivery = [d \in Deliveries |-> NoDelivery]
    /\ issuerNow = 0

\* ------------------------------------------------------------ specifications

\* The parts a specification does not exercise stay as constructed.
ClientFrame == UNCHANGED <<verifyVars, issuerVars, calVars, layoutVars>>

Init == ClientInit /\ VerifyIdle /\ IssuerInit /\ CalIdle /\ LayoutIdle

Next ==
    \/ LoadDataOk /\ ClientFrame
    \/ LoadDataFail /\ ClientFrame
    \/ \E t \in ClientTokens : handleVerify(t) /\ ClientFrame
    \/ \E c \in inflight : VerifyResolve(c) /\ ClientFrame
    \/ \E c \in inflight : VerifyReject(c) /\ ClientFrame
    \/ OpenPrompt /\ ClientFrame
    \/ clearLicense /\ ClientFrame
    \/ handlePrint /\ ClientFrame
    \/ Tick /\ ClientFrame
    \/ Restart /\ ClientFrame

Spec == Init /\ [][Next]_vars

\* The application on a machine whose clock the user may also set back.
NextClock ==
    \/ Next
    \/ ClockSetBack /\ ClientFrame

SpecClock == Init /\ [][NextClock]_vars

InitStore == StoreInit /\ VerifyIdle /\ IssuerInit /\ CalIdle /\ LayoutIdle

NextStore ==
    \/ (\E t \in StoreTokens : StoreVerifyLicense(t)) /\ ClientFrame
    \/ (\E c \in inflight : VerifyResolve(c)) /\ ClientFrame
    \/ (\E c \in inflight : VerifyReject(c)) /\ ClientFrame
    \/ StoreLoadSavedLicense /\ ClientFrame
    \/ clearLicense /\ ClientFrame
    \/ (\E show \in BOOLEAN : setShowLicensePrompt(show)) /\ ClientFrame
    \/ Tick /\ ClientFrame

SpecStore == InitStore /\ [][NextStore]_vars

CalFrame == UNCHANGED <<verifyVars, issuerVars, layoutVars>>

InitCalendar == ClientInit /\ VerifyIdle /\ IssuerInit /\ CalIdle /\ LayoutIdle

loadDataStep ==
    \/ LoadPrefs /\ CalFrame
    \/ SavePrefsOk /\ CalFrame
    \/ LoadEventsOk /\ CalFrame
    \/ loadDataCatch /\ CalFrame

NextCalendar ==
    \/ loadDataStep
    \/ (\E d \in Dates : setSelectedDate(d)) /\ CalFrame
    \/ (\E p \in PrefsValues : setPrefs(p)) /\ CalFrame
    \/ (\E id \in EventIds, t \in Titles : handleAddEvent(id, t)) /\ CalFrame
    \/ (\E id \in EventIds, t \in Titles : updateEvent(id, t)) /\ CalFrame
    \/ (\E id \in EventIds : deleteEvent(id)) /\ CalFrame
    \/ DbWriteOk /\ CalFrame
    \/ DbWriteFail /\ CalFrame
    \/ CalRestart /\ CalFrame

SpecCalendar == InitCalendar /\ [][NextCalendar]_vars

\* Every database promise loadData awaits settles.
SpecCalendarLive == SpecCalendar /\ WF_vars(loadDataStep)

\* The view of the loaded application: month navigation and date selection.
InitNavigation == StoreInit /\ VerifyIdle /\ IssuerInit /\ NavInit /\ LayoutIdle

NextNavigation ==
    \/ nextMonth /\ CalFrame
    \/ previousMonth /\ CalFrame
    \/ (\E d \in Dates : setSelectedDate(d)) /\ CalFrame

SpecNavigation == InitNavigation /\ [][NextNavigation]_vars

InitLayout == LayoutInit /\ ClientInit /\ VerifyIdle /\ IssuerInit /\ CalIdle

NextLayout == CalendarPage /\ UNCHANGED <<clientVars, verifyVars, issuerVars, calVars>>

SpecLayout == InitLayout /\ [][NextLayout]_vars

InitVerify == VerifyInit /\ ClientInit /\ IssuerInit /\ CalIdle /\ LayoutIdle

NextVerify == VerifyApply /\ UNCHANGED <<clientVars, issuerVars, calVars, layoutVars>>

SpecVerify == InitVerify /\ [][NextVerify]_vars

IssuerFrame == UNCHANGED <<clientVars, verifyVars, calVars, layoutVars>>

InitIssuer == IssuerInit /\ ClientInit /\ VerifyIdle /\ CalIdle /\ LayoutIdle

NextIssuer ==
    \/ \E d \in Deliveries, s \in SaleIds : Deliver(d, s) /\ IssuerFrame
    \/ \E d \in Deliveries : handlePurchaseEvent(d) /\ IssuerFrame
    \/ IssuerTick /\ IssuerFrame

SpecIssuer == InitIssuer /\ [][NextIssuer]_vars

\* ------------------------------------------------------------------ claims

\* The record verifyLicense writes for the call that settled last.
RecordOfLastCall ==
    [token |-> lastCall.token, status |-> lastCall.status, verified_at |-> lastCall.at]

\* C1: a record older than the grace window, re-verified at start without
\* the issuer being reached, does not leave the installation entitled.
C1_GraceLapse ==
    (lastOp = "verifyResolved" /\ lastCall.src = "startup" /\ lastCall.backend = "offline")
        => ~IsValid(license)

\* C2: when the stored token's expires_at is earlier than the clock at start,
\* the license in effect after loadSavedLicense (and after the verification it
\* may start) is not valid.
C2_ExpiredNotRescued ==
    (/\ lastOp = "loadSavedLicense" \/ (lastOp = "verifyResolved" /\ lastCall.src = "startup")
     /\ storage # NoRecord
     /\ storage.token.expiresAt # NoExpiry
     /\ storage.token.expiresAt < now)
        => ~IsValid(license)

\* C3: printing happens only when canUsePrintExport(license) is true, and that
\* is true only for a non-null license with valid = true.
C3_PrintGated ==
    lastOp = "handlePrint" => (canUsePrintExport(license) /\ IsValid(license))

\* C4: per sale id at most one token is ever minted, every finished delivery
\* of the sale returns that token, and a received delivery can always be
\* handled, whatever the other deliveries are doing.
C4_IdempotentIssuance ==
    /\ \A s \in SaleIds : minted[s] <= 1
    /\ \A d \in Deliveries :
          delivery[d].state = "done" =>
              /\ delivery[d].result # NoToken
              /\ delivery[d].result.saleId = delivery[d].saleId
    /\ \A d1, d2 \in Deliveries :
          (/\ delivery[d1].state = "done"
           /\ delivery[d2].state = "done"
           /\ delivery[d1].saleId = delivery[d2].saleId)
              => delivery[d1].result = delivery[d2].result
    /\ \A d \in Deliveries :
          delivery[d].state = "received" => ENABLED handlePurchaseEvent(d)

\* C4 witness: two deliveries of one sale are finished, the second after the
\* issuer's clock moved on, while a delivery of the other sale is waiting.
C4_Witness ==
    \E d1, d2, d3 \in Deliveries :
        /\ d1 # d2
        /\ delivery[d1].state = "done"
        /\ delivery[d2].state = "done"
        /\ delivery[d1].saleId = delivery[d2].saleId
        /\ issuerNow > delivery[d1].result.issuedAt
        /\ delivery[d3].state = "received"
        /\ delivery[d3].saleId # delivery[d1].saleId

\* C5: verify decides by strict priority: Malformed, else InvalidSignature,
\* else WrongProduct, else Expired, else Valid.
C5_VerifyPriority ==
    vOut # "none" =>
        /\ ~decodeOk(vTok) => vOut = "Malformed"
        /\ (decodeOk(vTok) /\ ~vTok.sigOk) => vOut = "InvalidSignature"
        /\ (decodeOk(vTok) /\ vTok.sigOk /\ vTok.productId # vExpected)
              => vOut = "WrongProduct"
        /\ (/\ decodeOk(vTok) /\ vTok.sigOk /\ vTok.productId = vExpected
            /\ vTok.expiresAt # NoExpiry /\ vTok.expiresAt <= vAt)
              => vOut = "Expired"
        /\ (/\ decodeOk(vTok) /\ vTok.sigOk /\ vTok.productId = vExpected
            /\ (vTok.expiresAt = NoExpiry \/ vTok.expiresAt > vAt))
              => vOut = "Valid"

\* C5 witness: a decodable token with a bad signature, another product and a
\* passed expiry was verified, and the answer is InvalidSignature.
C5_Witness ==
    /\ vOut = "InvalidSignature"
    /\ vTok.productId # vExpected
    /\ vTok.expiresAt # NoExpiry
    /\ vTok.expiresAt < vAt

\* C6: an authentic token of the right product with expiresAt = T is Valid at
\* every time before T and Expired at every time from T on.
C6_ExpiryBoundary ==
    (/\ vOut # "none"
     /\ decodeOk(vTok) /\ vTok.sigOk /\ vTok.productId = vExpected
     /\ vTok.expiresAt # NoExpiry)
        => /\ vAt < vTok.expiresAt => vOut = "Valid"
           /\ vAt >= vTok.expiresAt => vOut = "Expired"

\* C6 witness: such a token was verified exactly at its expiry.
C6_Witness ==
    /\ vOut = "Expired"
    /\ decodeOk(vTok) /\ vTok.sigOk /\ vTok.productId = vExpected
    /\ vTok.expiresAt = vAt

\* C7: after the invoke rejected, the license in effect is not an
\* invalid (valid = false) status.
C7_FailureIsNotDenial ==
    lastOp = "verifyRejected" => ~(license # NoLicense /\ ~license.valid)

C9_OnlyClearRemoves ==
    [][(storage # NoRecord /\ storage' = NoRecord) => lastOp' = "clearLicense"]_vars

\* C9 witness: a verifyLicense call was rejected while a record was stored,
\* and the record is still there.
C9_Witness ==
    /\ lastOp = "verifyRejected"
    /\ storage # NoRecord

\* C10: every invocation in flight can be ended by a step of the store (an
\* answer, a rejection or a timeout), so that checking always comes to an end.
C10_CheckingEnds ==
    \A c \in inflight : ENABLED (VerifyResolve(c) \/ VerifyReject(c))

\* C11: by the time isLoading is false, loadData has executed
\* loadSavedLicense exactly once, also when a database call failed.
C11_LicenseLoadedOnce ==
    ~isLoading => initLoads = 1

\* C12: a token without an expiry never verifies as Expired, at any time:
\* its outcome is Valid, InvalidSignature, WrongProduct or Malformed.
C12_NoExpiryNeverExpired ==
    (vOut # "none" /\ vTok.expiresAt = NoExpiry)
        => vOut \in {"Valid", "InvalidSignature", "WrongProduct", "Malformed"}

\* C12 witness: an authentic token of the right product without an expiry was
\* verified on the last day of the clock and is Valid.
C12_Witness ==
    /\ vOut = "Valid"
    /\ vTok.expiresAt = NoExpiry
    /\ vAt = MaxNow

NumDelimiters(w) == Cardinality({i \in 1 .. Len(w) : w[i] = "."})

\* C13: verify answers every string with one of the five outcomes, and the
\* empty string, a string without the delimiter, a string with more than one
\* delimiter and a string with a character that is not base64 are Malformed.
C13_MalformedInputs ==
    vOut # "none" =>
        /\ vOut \in Outcomes
        /\ (\/ Len(vWire) = 0
            \/ NumDelimiters(vWire) # 1
            \/ \E i \in 1 .. Len(vWire) : vWire[i] = "!")
              => vOut = "Malformed"

\* C13 witness: a string with two delimiters, whose halves would otherwise
\* carry a verifying signature, was answered Malformed.
C13_Witness ==
    /\ vOut = "Malformed"
    /\ NumDelimiters(vWire) = 2
    /\ vWire[1] = "B"
    /\ vTok.sigOk

\* C14: the status a verifyLicense call ends with carries a payload exactly
\* when the command answered and the outcome is Valid or Expired; a forged,
\* malformed or wrong-product token and a failed call carry none.
C14_PayloadIffSigned ==
    lastCall # NoCall =>
        (lastCall.status.payload <=>
            /\ lastCall.backend \in {"online", "offline"}
            /\ verify(lastCall.token, PRODUCT_ID, lastCall.at) \in {"Valid", "Expired"})

\* C14 witness: an authentic token was verified after its expiry; the status
\* is not valid and carries the payload.
C14_Witness ==
    /\ lastCall # NoCall
    /\ lastCall.status.error = "Expired"
    /\ lastCall.status.payload
    /\ license = lastCall.status

\* C15: at every start with a persisted token the token is verified again
\* before a status is effective: right after loadSavedLicense the call is
\* under way and no status is set, and a status is never effective in a run
\* in which no verification has completed.
C15_VerifiedEveryStart ==
    /\ (lastOp = "loadSavedLicense" /\ storage # NoRecord) =>
          /\ license = NoLicense
          /\ \E c \in inflight : c.token = storage.token /\ c.src = "startup"
    /\ license # NoLicense => lastCall # NoCall

\* C16: loadSavedLicense re-verifies the stored token, without applying the
\* cached status, when the record is more than 7 days old, and applies the
\* cached status without any verification when it is 7 days old or younger.
C16_StrictGraceBoundary ==
    (lastOp = "loadSavedLicense" /\ storage # NoRecord) =>
        IF now - storage.verified_at > GRACE_DAYS
            THEN /\ \E c \in inflight : c.token = storage.token /\ c.src = "startup"
                 /\ isChecking
                 /\ license = NoLicense
            ELSE /\ license = storage.status
                 /\ inflight = {}
                 /\ ~isChecking

\* C16 witness: a record aged exactly 7 days was loaded and its status applied
\* without a verification.
C16_Witness ==
    /\ lastOp = "loadSavedLicense"
    /\ storage # NoRecord
    /\ now - storage.verified_at = GRACE_DAYS
    /\ license = storage.status
    /\ inflight = {}

\* C17: the persisted record is absent or a complete triple whose status is
\* the result of verifying exactly its token at its verified_at, under every
\* interleaving of overlapping verifyLicense calls.
C17_RecordIsWhole ==
    storage # NoRecord =>
        /\ storage.token \in StoreTokens
        /\ storage.verified_at \in 0 .. now
        /\ storage.status.valid
        /\ storage.status = verify_license(storage.token, storage.verified_at)

\* C17 witness: the call that completed last wrote the record while a call
\* for another token was still pending.
C17_Witness ==
    /\ lastOp = "verifyResolved"
    /\ storage = RecordOfLastCall
    /\ \E c \in inflight : c.token # storage.token

\* C18: whenever the in-memory license is valid, a persisted record exists,
\* its status is valid and it equals the in-memory license.
C18_ValidLicenseIsPersisted ==
    IsValid(license) =>
        /\ storage # NoRecord
        /\ storage.status.valid
        /\ storage.status = license

\* C18 witness: a call completed valid while another call was pending; the
\* record holds the license it set.
C18_Witness ==
    /\ IsValid(license)
    /\ storage.status = license
    /\ lastOp = "verifyResolved"
    /\ inflight # {}

\* C19: isChecking is true in every state in which a verifyLicense call is in
\* flight, also when calls overlap.
C19_CheckingWhileInFlight ==
    inflight # {} => isChecking

\* C20: after clearLicense, until a new verifyLicense is requested, there is
\* no persisted record and no valid in-memory license.
C20_DeactivationDurable ==
    deactivated => (storage = NoRecord /\ ~IsValid(license))

\* C21: loadSavedLicense applies a cached status without re-verification
\* only when the record's age is between 0 and 7 days; a record verified
\* after the current clock is not trusted as fresh.
C21_FutureRecordNotTrusted ==
    (/\ lastOp = "loadSavedLicense"
     /\ storage # NoRecord
     /\ license = storage.status
     /\ inflight = {})
        => now - storage.verified_at \in 0 .. GRACE_DAYS

\* C22: once loadSavedLicense has run and no verification is in flight, the
\* license is valid or the license prompt is shown.
C22_LicenseRequired ==
    (initLoads >= 1 /\ inflight = {}) => (IsValid(license) \/ showLicensePrompt)

\* The position of the view on the line of months.
MonthLine == currentYear * 12 + currentMonth

\* C23: currentMonth stays in 0..11; every nextMonth moves the view one month
\* up the month line and every previousMonth one month down, and neither
\* changes events, prefs or selectedDate.
C23_MonthWalk ==
    /\ [](currentMonth \in 0 .. 11)
    /\ [][/\ lastOp' = "nextMonth" => MonthLine' = MonthLine + 1
          /\ lastOp' = "previousMonth" => MonthLine' = MonthLine - 1
          /\ lastOp' \in {"nextMonth", "previousMonth"}
                => UNCHANGED <<events, prefs, selectedDate>>]_vars

\* C23 witness: nextMonth has stepped from December into January of the next
\* year, with an event in the list and a date selected.
C23_Witness ==
    /\ lastOp = "nextMonth"
    /\ currentMonth = 0
    /\ currentYear = BaseYear + 1
    /\ events # <<>>
    /\ selectedDate # "null"

\* C24: once the application has loaded and every issued database write has
\* settled, the persisted events are the in-memory events.
C24_StoreMatchesDb ==
    (loadPc = "loaded" /\ dbQueue = <<>>) => EventSet(events) = Persisted(dbEvents)

\* C25: loading always ends with isLoading false, and when it succeeds the
\* in-memory events are the events of the database and the database holds a
\* preferences record.
C25_InitializationFinishes ==
    /\ isLoading ~> ~isLoading
    /\ [][(loadPc # "loaded" /\ loadPc' = "loaded")
            => /\ EventSet(events') = Persisted(dbEvents')
               /\ Len(events') = Cardinality(Persisted(dbEvents'))
               /\ dbPrefs' # NoPrefs]_vars

\* C25 witness: a start after which the list holds the two events the
\* database held, and the license load has run.
C25_Witness ==
    /\ loadPc = "loaded"
    /\ ~isLoading
    /\ lastOp = "loadSavedLicense"
    /\ Len(events) = 2
    /\ EventSet(events) = Persisted(dbEvents)

\* C26: computeGrid returns exactly the days 1..n of the month, ascending,
\* each once, day d at row (f+d-1) div 7 and column (f+d-1) mod 7 of the
\* 7x6 grid; no day falls beyond the sixth row.
C26_WholeMonth ==
    lGrid # NoGrid =>
        LET cells == lGrid.cells
            G == gridGeometry(lPrefs)
        IN /\ Len(cells) = lDaysInMonth
           /\ \A d \in 1 .. lDaysInMonth :
                 LET slot == lFirstDay + d - 1
                 IN /\ cells[d].day = d
                    /\ slot \div 7 < 6
                    /\ cells[d].x = G.inner.x + (slot % 7) * (G.cellW + G.gutter)
                    /\ cells[d].y = G.gridStartY + (slot \div 7) * (G.cellH + G.gutter)

\* C26 witness: a month of 31 days starting on a Saturday was laid out with
\* all its days, the last one in the sixth row.
C26_Witness ==
    /\ lGrid # NoGrid
    /\ lFirstDay = 6
    /\ lDaysInMonth = 31
    /\ Len(lGrid.cells) = 31
    /\ lGrid.cells[31].y = lGrid.innerBox.y
            + 5 * (gridGeometry(lPrefs).cellH + gridGeometry(lPrefs).gutter)

\* C27: for every preferences value within the schema bounds every cell has
\* strictly positive width and height and lies inside the page's inner box.
C27_CellsFitPage ==
    lGrid # NoGrid =>
        LET inner == getInnerBox(getPageDims(lPrefs), lPrefs.marginMm)
        IN \A i \in 1 .. Len(lGrid.cells) :
              LET cell == lGrid.cells[i]
              IN /\ cell.w > 0
                 /\ cell.h > 0
                 /\ cell.x >= inner.x
                 /\ cell.y >= inner.y
                 /\ cell.x + cell.w <= inner.x + inner.w
                 /\ cell.y + cell.h <= inner.y + inner.h

\* C28: the weekday header text is at or above the top of the first grid
\* row, and the label of column c is centred on the cells of column c.
C28_HeaderInBand ==
    lGrid # NoGrid =>
        /\ \A c \in 0 .. 6 : lHeaders[c].y <= lGrid.innerBox.y
        /\ \A d \in 1 .. Len(lGrid.cells) :
              LET cell == lGrid.cells[d]
                  c == (lFirstDay + d - 1) % 7
              IN 2 * lHeaders[c].x = 2 * cell.x + cell.w

====
